---- MODULE Spec2Model ----
(***************************************************************************)
(* Model of effect/testing.py: resolve_effect, fail_effect, resolve_stub   *)
(* and sync_perform, driving the callback chain of an Effect.              *)
(*                                                                         *)
(* A payload is a record tagged by `kind`: a plain value, None, a captured *)
(* sys.exc_info() token, or an Effect.  A continuation is a record that    *)
(* describes what the Python callable does with its argument; Call         *)
(* evaluates it.                                                           *)
(***************************************************************************)
EXTENDS Integers, Sequences, FiniteSets, TLC

VARIABLES fn, args, result, is_error, i, pc, outcome, calls,
          peffect, successes, errors,
          root, fed, visited, heap, ncall

vars == <<fn, args, result, is_error, i, pc, outcome, calls,
          peffect, successes, errors,
          root, fed, visited, heap, ncall>>

-----------------------------------------------------------------------------
(* Bounds of the explored inputs.                                          *)

MaxLen == 3

MaxNestedLen == 2

MaxVal == 1

MaxSyncCalls == 2

-----------------------------------------------------------------------------
(* Payloads.                                                               *)

Val(n) == [kind |-> "val", v |-> n]

NoneVal == [kind |-> "None"]

Exc(t, m) == [type |-> t, msg |-> m]

ExcInfo(e) == [kind |-> "exc_info", type |-> e.type, value |-> e]

Effect(intent, callbacks) ==
    [kind |-> "Effect", intent |-> intent, callbacks |-> callbacks]

WithCallbacks(intent, callbacks) == Effect(intent, callbacks)

IsEffectNever(p) == FALSE

IsEffect(p) == p.kind = "Effect"

(* Intents.  StubIntent carries `result`; CustomIntent is an intent of     *)
(* another class that also has a `result` attribute; DeferredIntent has no *)
(* such attribute and its performer does not deliver inline.               *)

StubIntent(r) == [type |-> "StubIntent", result |-> r]

CustomIntent(r) == [type |-> "CustomIntent", result |-> r]

DeferredIntent == [type |-> "DeferredIntent"]

HasResultAttr(intent) == "result" \in DOMAIN intent

-----------------------------------------------------------------------------
(* Continuations and what calling them does.                               *)

None == [f |-> "None"]

Add(k) == [f |-> "add", k |-> k]

Mul(k) == [f |-> "mul", k |-> k]

Const(p) == [f |-> "const", out |-> p]

Raise(e) == [f |-> "raise", exc |-> e]

RetEffect(e) == [f |-> "effect", eff |-> e]

CallsSyncPerform(e) == [f |-> "sync_perform", eff |-> e]

Pair(callback, errback) == [callback |-> callback, errback |-> errback]

Ret(p) == [raised |-> FALSE, value |-> p]

Thrown(e) == [raised |-> TRUE, exc |-> e]

TypeError == Exc("TypeError", "unsupported operand")

(* Outcomes of a call.                                                     *)

NoOutcome == [kind |-> "none"]

Returned(p) == [kind |-> "returned", value |-> p]

Raised(e) == [kind |-> "raised", exc |-> e]

(* The parts of sync_perform, testing.py:101-129, that a continuation      *)
(* calling sync_perform needs as well.                                     *)

SUCC == [f |-> "SUCC"]

ERR == [f |-> "ERR"]

On(effect, success, error) ==
    Effect(effect.intent, Append(effect.callbacks, Pair(success, error)))

IsSynchronous(intent) == intent.type \in {"StubIntent", "CustomIntent"}

(* StubIntent.perform_effect, testing.py:22-24.                            *)

StubPerformNothing(intent) == NoneVal

StubPerformEffect(intent) == intent.result

PerformerResult(intent) ==
    IF intent.type = "StubIntent" THEN StubPerformEffect(intent) ELSE intent.result

(* effect.on(success=SUCC, error=ERR), testing.py:122.                     *)

TerminalSplit(effect) == On(On(effect, None, ERR), SUCC, None)

Terminal(effect) == On(effect, SUCC, ERR)

AssertionError == Exc("AssertionError", "was not synchronous!")

SyncOutcomeDefault(succ, errs) ==
    IF succ # <<>> THEN Returned(succ[1])
    ELSE IF errs # <<>> THEN Raised(errs[1].value)
    ELSE Returned(NoneVal)

SyncOutcome(succ, errs) ==
    IF succ # <<>> THEN Returned(succ[1])
    ELSE IF errs # <<>> THEN Raised(errs[1].value)
    ELSE Raised(AssertionError)

(* successes = [] and errors = [], testing.py:113-114: each call binds a   *)
(* new, empty list; `alias` tells whether the list is the caller's object. *)

NewCollectorShared(existing) == [list |-> existing, alias |-> TRUE]

NewCollector(existing) == [list |-> <<>>, alias |-> FALSE]

(* sync_perform of an effect without callbacks, called from inside a       *)
(* continuation while the caller's collectors hold outerS and outerE.      *)

InnerSync(effect, outerS, outerE) ==
    LET cs == NewCollector(outerS)
        ce == NewCollector(outerE)
        s1 == IF IsSynchronous(effect.intent)
              THEN Append(cs.list, PerformerResult(effect.intent))
              ELSE cs.list
    IN  [outcome |-> SyncOutcome(s1, ce.list),
         successes |-> IF cs.alias THEN s1 ELSE outerS,
         errors |-> IF ce.alias THEN ce.list ELSE outerE]

OutcomeAsCall(o) == IF o.kind = "raised" THEN Thrown(o.exc) ELSE Ret(o.value)

Call(cb, x) ==
    CASE cb.f = "add"    -> IF x.kind = "val" THEN Ret(Val(x.v + cb.k))
                                             ELSE Thrown(TypeError)
      [] cb.f = "mul"    -> IF x.kind = "val" THEN Ret(Val(x.v * cb.k))
                                             ELSE Thrown(TypeError)
      [] cb.f = "const"  -> Ret(cb.out)
      [] cb.f = "raise"  -> Thrown(cb.exc)
      [] cb.f = "effect" -> Ret(cb.eff)
      [] cb.f = "sync_perform" -> OutcomeAsCall(InnerSync(cb.eff, <<>>, <<>>).outcome)
      [] cb.f \in {"SUCC", "ERR"} -> Ret(NoneVal)

-----------------------------------------------------------------------------
(* The inputs explored.                                                    *)

ValueErrorX == Exc("ValueError", "x")

KeyErrorY == Exc("KeyError", "y")

Excs == {ValueErrorX, KeyErrorY}

Vals == {Val(n) : n \in 0..MaxVal}

NestedPair(j) ==
    IF j % 2 = 1 THEN Pair(Add(j + 1), None)
                 ELSE Pair(Mul(j + 1), Const(Val(j + 5)))

NestedCallbacks(k) == [j \in 1..k |-> NestedPair(j)]

NestedEffects ==
    {Effect(StubIntent(Val(2)), NestedCallbacks(k)) : k \in {0, MaxNestedLen}}

LeafPairs ==
    { Pair(Add(1), None),
      Pair(Mul(2), Const(Val(0))),
      Pair(Raise(ValueErrorX), None),
      Pair(None, Const(Val(1))),
      Pair(None, Raise(KeyErrorY)),
      Pair(None, None) }

EffectPairs ==
    {Pair(RetEffect(n), None) : n \in NestedEffects}
      \cup {Pair(None, RetEffect(Effect(DeferredIntent, NestedCallbacks(1))))}

Pairs == LeafPairs \cup EffectPairs

RECURSIVE Chains(_)
Chains(n) ==
    IF n = 0 THEN {<<>>}
    ELSE LET shorter == Chains(n - 1)
         IN  shorter \cup {Append(c, p) : c \in {s \in shorter : Len(s) = n - 1},
                                          p \in Pairs}

Intents == {StubIntent(Val(42)), StubIntent(ExcInfo(KeyErrorY)),
            CustomIntent(Val(1)), DeferredIntent}

PlainIntent == StubIntent(Val(1))

(* Chains in which a continuation calls sync_perform itself.               *)
NestedSyncPair ==
    Pair(CallsSyncPerform(Effect(StubIntent(Val(7)), <<>>)), None)

NestedSyncChains ==
    {<<NestedSyncPair>> \o c : c \in Chains(MaxLen - 2)}
      \cup {c \o <<NestedSyncPair>> : c \in Chains(MaxLen - 2)}

(* An Effect handed to resolve_effect as the result itself.                *)
EffectResults == {Effect(StubIntent(Val(2)), NestedCallbacks(1))}

-----------------------------------------------------------------------------
(* resolve_effect, testing.py:61-80, one loop iteration per step.          *)

SlotReversed(callbacks, idx) == callbacks[Len(callbacks) - idx]

Slot(callbacks, idx) == callbacks[idx + 1]

SelectCbFallback(pair, err) ==
    IF err THEN (IF pair.errback = None THEN pair.callback ELSE pair.errback)
           ELSE (IF pair.callback = None THEN pair.errback ELSE pair.callback)

SelectCb(pair, err) == IF err THEN pair.errback ELSE pair.callback

SideName(err) == IF err THEN "errback" ELSE "callback"

ModeAfterSticky(r) == is_error \/ r.raised

ModeAfter(r) == r.raised

PayloadAfter(r) == IF r.raised THEN ExcInfo(r.exc) ELSE r.value

RemainingFromSlot(callbacks, idx) == SubSeq(callbacks, idx + 1, Len(callbacks))

Remaining(callbacks, idx) == SubSeq(callbacks, idx + 2, Len(callbacks))

PendingEffectNestedOnly(new, callbacks, idx) ==
    WithCallbacks(new.intent, new.callbacks)

PendingEffect(new, callbacks, idx) ==
    WithCallbacks(new.intent, new.callbacks \o Remaining(callbacks, idx))

LoopExitSwallow(res, err) == Returned(res)

LoopExitNoReturn(res, err) == IF err THEN Raised(res.value) ELSE Returned(NoneVal)

LoopExitWrap(res, err) ==
    IF err THEN Raised(res.value)
    ELSE IF res.kind = "Effect"
         THEN Returned(WithCallbacks(res.intent, res.callbacks \o args.effect.callbacks))
         ELSE Returned(res)

LoopExit(res, err) == IF err THEN Raised(res.value) ELSE Returned(res)

(* The Effect objects a call can reach: its argument and the Effect a      *)
(* continuation returned.  Effect.with_callbacks builds a new Effect and   *)
(* list `+` and slicing build new lists, so neither object is written.     *)

NewHeap(effect) == [input |-> effect, returned |-> NoneVal, fresh |-> FALSE]

HeapAfterExtend(h, new, callbacks, idx) ==
    [input |-> h.input,
     returned |-> [new EXCEPT !.callbacks = new.callbacks \o Remaining(callbacks, idx)],
     fresh |-> FALSE]

HeapAfterPending(h, new, callbacks, idx) ==
    [input |-> h.input, returned |-> new, fresh |-> TRUE]

(* resolve_effect as a function of its arguments.                          *)
RECURSIVE ResolveFrom(_, _, _, _)
ResolveFrom(callbacks, idx, res, err) ==
    IF idx = Len(callbacks) THEN LoopExit(res, err)
    ELSE LET cb == SelectCb(Slot(callbacks, idx), err)
         IN  IF cb = None THEN ResolveFrom(callbacks, idx + 1, res, err)
             ELSE LET r == Call(cb, res)
                      p == PayloadAfter(r)
                  IN  IF IsEffect(p) THEN Returned(PendingEffect(p, callbacks, idx))
                      ELSE ResolveFrom(callbacks, idx + 1, p, ModeAfter(r))

Resolve(effect, res, err) == ResolveFrom(effect.callbacks, 0, res, err)

Init ==
    /\ fn \in {"resolve_effect", "fail_effect", "resolve_stub", "sync_perform"}
    /\ \/ \E cbs \in Chains(MaxLen) :
            \/ /\ fn = "resolve_effect"
               /\ \E r \in Vals \cup {ExcInfo(e) : e \in Excs} \cup EffectResults :
                    args = [effect |-> Effect(PlainIntent, cbs), result |-> r,
                            is_error |-> (r.kind = "exc_info")]
            \/ /\ fn = "fail_effect"
               /\ \E e \in Excs :
                    args = [effect |-> Effect(PlainIntent, cbs), exception |-> e]
            \/ /\ fn \in {"resolve_stub", "sync_perform"}
               /\ \E it \in Intents : args = [effect |-> Effect(it, cbs)]
       \/ /\ fn = "sync_perform"
          /\ \E cbs \in NestedSyncChains, it \in Intents :
               args = [effect |-> Effect(it, cbs)]
    /\ result = NoneVal
    /\ is_error = FALSE
    /\ i = 0
    /\ pc = "start"
    /\ outcome = NoOutcome
    /\ calls = <<>>
    /\ peffect = NoneVal
    /\ successes = <<>>
    /\ errors = <<>>
    /\ root = args.effect
    /\ fed = <<>>
    /\ visited = <<>>
    /\ heap = NewHeap(args.effect)
    /\ ncall = 1

ResolveEffect ==
    /\ pc = "start" /\ fn = "resolve_effect"
    /\ result' = args.result
    /\ is_error' = args.is_error
    /\ i' = 0
    /\ pc' = "loop"
    /\ fed' = Append(fed, [result |-> args.result, is_error |-> args.is_error])
    /\ UNCHANGED <<fn, args, outcome, calls, peffect, successes, errors>>
    /\ UNCHANGED <<root, visited, heap, ncall>>

LoopBody ==
    /\ pc = "loop"
    /\ i < Len(args.effect.callbacks)
    /\ LET cb == SelectCb(Slot(args.effect.callbacks, i), is_error)
       IN  IF cb = None
           THEN /\ i' = i + 1
                /\ visited' = Append(visited, [pair |-> Slot(args.effect.callbacks, i),
                                               cb |-> None, arg |-> result,
                                               ret |-> NoneVal])
                /\ UNCHANGED <<result, is_error, pc, outcome, calls, heap>>
           ELSE LET r == Call(cb, result)
                    res == PayloadAfter(r)
                IN  /\ is_error' = ModeAfter(r)
                    /\ result' = res
                    /\ calls' = Append(calls, [slot |-> i, side |-> SideName(is_error),
                                               cb |-> cb, arg |-> result])
                    /\ visited' = Append(visited, [pair |-> Slot(args.effect.callbacks, i),
                                                   cb |-> cb, arg |-> result,
                                                   ret |-> res])
                    /\ IF IsEffect(res)
                       THEN /\ outcome' = Returned(PendingEffect(res, args.effect.callbacks, i))
                            /\ heap' = HeapAfterPending(heap, res, args.effect.callbacks, i)
                            /\ pc' = "done"
                            /\ i' = i
                       ELSE /\ i' = i + 1
                            /\ UNCHANGED <<pc, outcome, heap>>
    /\ UNCHANGED <<fn, args, peffect, successes, errors, root, fed, ncall>>

LoopEnd ==
    /\ pc = "loop"
    /\ i = Len(args.effect.callbacks)
    /\ outcome' = LoopExit(result, is_error)
    /\ pc' = "done"
    /\ UNCHANGED <<fn, args, result, is_error, i, calls, peffect, successes, errors>>
    /\ UNCHANGED <<root, fed, visited, heap, ncall>>

-----------------------------------------------------------------------------
(* fail_effect, testing.py:83-90: raise the exception, capture it with     *)
(* sys.exc_info() and delegate to resolve_effect in error mode.            *)

FailToken(e) == ExcInfo(e)

FailModeSuccess == FALSE

FailMode == TRUE

FailEffect ==
    /\ pc = "start" /\ fn = "fail_effect"
    /\ result' = FailToken(args.exception)
    /\ is_error' = FailMode
    /\ i' = 0
    /\ pc' = "loop"
    /\ fed' = Append(fed, [result |-> FailToken(args.exception), is_error |-> FailMode])
    /\ UNCHANGED <<fn, args, outcome, calls, peffect, successes, errors>>
    /\ UNCHANGED <<root, visited, heap, ncall>>

-----------------------------------------------------------------------------
(* resolve_stub, testing.py:93-98: effect.intent.result is an attribute    *)
(* lookup, which raises AttributeError when the intent has no `result`.    *)

AttributeError == Exc("AttributeError", "no attribute 'result'")

StubLookupDefault(intent) ==
    IF HasResultAttr(intent) THEN Ret(intent.result) ELSE Ret(NoneVal)

StubLookup(intent) ==
    IF HasResultAttr(intent) THEN Ret(intent.result) ELSE Thrown(AttributeError)

StubModeByKind == args.effect.intent.result.kind = "exc_info"

StubMode == FALSE

ResolveStub ==
    /\ pc = "start" /\ fn = "resolve_stub"
    /\ LET r == StubLookup(args.effect.intent)
       IN  IF r.raised
           THEN /\ outcome' = Raised(r.exc)
                /\ pc' = "done"
                /\ UNCHANGED <<result, is_error, i, fed>>
           ELSE /\ result' = r.value
                /\ is_error' = StubMode
                /\ i' = 0
                /\ pc' = "loop"
                /\ fed' = Append(fed, [result |-> r.value, is_error |-> StubMode])
                /\ UNCHANGED outcome
    /\ UNCHANGED <<fn, args, calls, peffect, successes, errors>>
    /\ UNCHANGED <<root, visited, heap, ncall>>

-----------------------------------------------------------------------------
(* sync_perform, testing.py:101-129.  Effect.on and perform live outside   *)
(* testing.py; they are modelled from their contract: on appends one pair, *)
(* perform runs the intent's performer and then the chain, performing any  *)
(* Effect a continuation returns together with the rest of the chain.      *)

(* perform as a function: the chain is run front to back; when the payload *)
(* is an Effect its operation is performed, yielding the next of the       *)
(* results rs, and its callbacks run before the rest of the chain.         *)
RECURSIVE PerformFrom(_, _, _, _, _)
PerformFrom(chain, res, err, rs, trace) ==
    IF ~err /\ IsEffect(res)
    THEN IF rs = <<>>
         THEN [done |-> FALSE, trace |-> trace,
               waiting |-> Effect(res.intent, res.callbacks \o chain)]
         ELSE PerformFrom(res.callbacks \o chain, Head(rs).result, Head(rs).is_error,
                          Tail(rs), trace)
    ELSE IF chain = <<>>
    THEN [done |-> TRUE, trace |-> trace, is_error |-> err, payload |-> res,
          unused |-> Len(rs)]
    ELSE LET cb == IF err THEN Head(chain).errback ELSE Head(chain).callback
         IN  IF cb = None
             THEN PerformFrom(Tail(chain), res, err, rs, trace)
             ELSE LET r == Call(cb, res)
                  IN  PerformFrom(Tail(chain),
                                  IF r.raised THEN ExcInfo(r.exc) ELSE r.value,
                                  r.raised, rs,
                                  Append(trace, [cb |-> cb, arg |-> res]))

PerformRun(effect, rs) ==
    PerformFrom(effect.callbacks, Head(rs).result, Head(rs).is_error, Tail(rs), <<>>)

SyncPerform ==
    /\ pc = "start" /\ fn = "sync_perform"
    /\ successes' = NewCollector(successes).list
    /\ errors' = NewCollector(errors).list
    /\ peffect' = Terminal(args.effect)
    /\ pc' = "perform"
    /\ UNCHANGED <<fn, args, result, is_error, i, outcome, calls>>
    /\ UNCHANGED <<root, fed, visited, heap, ncall>>

PerformIntent ==
    /\ pc = "perform"
    /\ IF IsSynchronous(peffect.intent)
       THEN /\ result' = PerformerResult(peffect.intent)
            /\ is_error' = FALSE
            /\ i' = 0
            /\ pc' = "callbacks"
       ELSE /\ pc' = "performed"
            /\ UNCHANGED <<result, is_error, i>>
    /\ UNCHANGED <<fn, args, outcome, calls, peffect, successes, errors>>
    /\ UNCHANGED <<root, fed, visited, heap, ncall>>

PerformCallbacks ==
    /\ pc = "callbacks"
    /\ IF IsEffect(result)
       THEN /\ peffect' = WithCallbacks(result.intent,
                              result.callbacks \o SubSeq(peffect.callbacks, i + 1,
                                                         Len(peffect.callbacks)))
            /\ pc' = "perform"
            /\ UNCHANGED <<result, is_error, i, calls, successes, errors>>
       ELSE IF i = Len(peffect.callbacks)
       THEN /\ pc' = "performed"
            /\ UNCHANGED <<result, is_error, i, calls, peffect, successes, errors>>
       ELSE LET cb == SelectCb(peffect.callbacks[i + 1], is_error)
            IN  /\ i' = i + 1
                /\ UNCHANGED <<pc, peffect>>
                /\ IF cb = None
                   THEN UNCHANGED <<result, is_error, calls, successes, errors>>
                   ELSE /\ calls' = Append(calls, [slot |-> i, side |-> SideName(is_error),
                                                   cb |-> cb, arg |-> result])
                        /\ IF cb = SUCC
                           THEN /\ successes' = Append(successes, result)
                                /\ result' = NoneVal
                                /\ is_error' = FALSE
                                /\ UNCHANGED errors
                           ELSE IF cb = ERR
                           THEN /\ errors' = Append(errors, result)
                                /\ result' = NoneVal
                                /\ is_error' = FALSE
                                /\ UNCHANGED successes
                           ELSE IF cb.f = "sync_perform"
                           THEN LET inner == InnerSync(cb.eff, successes, errors)
                                    r == OutcomeAsCall(inner.outcome)
                                IN  /\ result' = PayloadAfter(r)
                                    /\ is_error' = ModeAfter(r)
                                    /\ successes' = inner.successes
                                    /\ errors' = inner.errors
                           ELSE /\ result' = PayloadAfter(Call(cb, result))
                                /\ is_error' = ModeAfter(Call(cb, result))
                                /\ UNCHANGED <<successes, errors>>
    /\ UNCHANGED <<fn, args, outcome>>
    /\ UNCHANGED <<root, fed, visited, heap, ncall>>

SyncPerformEnd ==
    /\ pc = "performed"
    /\ outcome' = SyncOutcome(successes, errors)
    /\ pc' = "done"
    /\ UNCHANGED <<fn, args, result, is_error, i, calls, peffect, successes, errors>>
    /\ UNCHANGED <<root, fed, visited, heap, ncall>>

(* sync_perform called once more on the same effect.                       *)

SyncPerformAgain ==
    /\ pc = "done" /\ fn = "sync_perform"
    /\ ncall < MaxSyncCalls
    /\ ncall' = ncall + 1
    /\ pc' = "start"
    /\ outcome' = NoOutcome
    /\ calls' = <<>>
    /\ result' = NoneVal
    /\ is_error' = FALSE
    /\ i' = 0
    /\ peffect' = NoneVal
    /\ UNCHANGED <<fn, args, successes, errors, root, fed, visited, heap>>

-----------------------------------------------------------------------------
(* The caller of resolve_effect (docstring, testing.py:38-51): an Effect   *)
(* that comes back is resolved in turn with the next result.               *)

NextResults == {Val(0), Val(MaxVal)}

Drive ==
    /\ pc = "done"
    /\ fn = "resolve_effect"
    /\ outcome.kind = "returned"
    /\ IsEffect(outcome.value)
    /\ \E r \in NextResults :
         args' = [effect |-> outcome.value, result |-> r, is_error |-> FALSE]
    /\ fn' = "resolve_effect"
    /\ pc' = "start"
    /\ outcome' = NoOutcome
    /\ calls' = <<>>
    /\ result' = NoneVal
    /\ is_error' = FALSE
    /\ i' = 0
    /\ heap' = NewHeap(outcome.value)
    /\ UNCHANGED <<peffect, successes, errors, root, fed, visited, ncall>>

-----------------------------------------------------------------------------

Next ==
    \/ ResolveEffect
    \/ LoopBody
    \/ LoopEnd
    \/ FailEffect
    \/ ResolveStub
    \/ SyncPerform
    \/ PerformIntent
    \/ PerformCallbacks
    \/ SyncPerformEnd
    \/ Drive
    \/ SyncPerformAgain

Spec == Init /\ [][Next]_vars

-----------------------------------------------------------------------------
(* Vocabulary of the properties.                                           *)

InResolve == fn \in {"resolve_effect", "fail_effect", "resolve_stub"}

Callbacks == args.effect.callbacks

CallResult(c) == Call(c.cb, c.arg)

LastCall == calls[Len(calls)]

InjectedError ==
    \/ fn = "fail_effect"
    \/ fn = "resolve_effect" /\ args.is_error

InjectedExc ==
    IF fn = "fail_effect" THEN args.exception ELSE args.result.value

Benign(cb) == cb.f \in {"None", "add", "mul", "const"}

BenignChain ==
    \A k \in 1..Len(Callbacks) :
        Benign(Callbacks[k].callback) /\ Benign(Callbacks[k].errback)

RECURSIVE FoldSuccess(_, _)
FoldSuccess(cbs, x) ==
    IF cbs = <<>> THEN x
    ELSE FoldSuccess(Tail(cbs),
                     IF Head(cbs).callback = None THEN x
                     ELSE Call(Head(cbs).callback, x).value)

-----------------------------------------------------------------------------
(* C1: when no continuation of the effect raises or returns an Effect, one *)
(* resolve_effect(effect, r, is_error=False) returns the left-to-right     *)
(* fold of the present success-continuations over r, and no                *)
(* error-continuation is invoked.                                          *)

C1_FoldLeftToRight ==
    (fn = "resolve_effect" /\ ~args.is_error /\ args.result.kind = "val"
       /\ BenignChain /\ pc = "done")
        => /\ outcome = Returned(FoldSuccess(Callbacks, args.result))
           /\ \A k \in 1..Len(calls) : calls[k].side = "callback"

C1_Witness ==
    /\ fn = "resolve_effect" /\ ~args.is_error /\ args.result.kind = "val"
    /\ BenignChain /\ pc = "done"
    /\ Len(calls) = 2 /\ Len(Callbacks) = 3
    /\ calls[1].cb.f = "add" /\ calls[2].cb.f = "mul"
    /\ outcome = Returned(Val((args.result.v + 1) * 2))

-----------------------------------------------------------------------------
(* C2: when the continuation invoked at slot i returns an Effect N, the    *)
(* call returns an Effect with N's intent whose callbacks are N.callbacks  *)
(* followed by effect.callbacks[i+1:], nothing dropped, duplicated or      *)
(* reordered.                                                              *)

C2_PendingCallbacks ==
    (InResolve /\ pc = "done" /\ calls # <<>>)
        => LET r == CallResult(LastCall)
               s == LastCall.slot
           IN  (~r.raised /\ IsEffect(r.value))
                 => LET n == r.value
                        out == outcome.value
                        rest == Len(Callbacks) - (s + 1)
                    IN  /\ outcome.kind = "returned"
                        /\ IsEffect(out)
                        /\ out.intent = n.intent
                        /\ Len(out.callbacks) = Len(n.callbacks) + rest
                        /\ \A j \in 1..Len(n.callbacks) :
                               out.callbacks[j] = n.callbacks[j]
                        /\ \A j \in 1..rest :
                               out.callbacks[Len(n.callbacks) + j] = Callbacks[s + 1 + j]

C2_Witness ==
    /\ InResolve /\ pc = "done" /\ calls # <<>>
    /\ ~CallResult(LastCall).raised
    /\ IsEffect(CallResult(LastCall).value)
    /\ Len(CallResult(LastCall).value.callbacks) = 2
    /\ Len(Callbacks) - (LastCall.slot + 1) = 2
    /\ Len(outcome.value.callbacks) = 4
    /\ outcome.value.callbacks[2] # outcome.value.callbacks[3]

-----------------------------------------------------------------------------
(* C3: resolve_effect never swallows an error.  A call that ends in error  *)
(* mode raises the exception of the token it carries (the injected one or  *)
(* the one of the most recent raising continuation), a plain value is      *)
(* returned only in success mode, and every error that does not reach the  *)
(* caller was handed to an error-continuation.                             *)

CarriesError ==
    IF calls = <<>> THEN InjectedError ELSE CallResult(LastCall).raised

CarriedExc ==
    IF calls = <<>> THEN InjectedExc ELSE CallResult(LastCall).exc

LookupFailed == fn = "resolve_stub" /\ ~HasResultAttr(args.effect.intent)

C3_NeverSwallows ==
    InResolve
        => /\ (pc = "done" /\ ~LookupFailed)
                => IF CarriesError THEN outcome = Raised(CarriedExc)
                                   ELSE outcome.kind = "returned"
           /\ (InjectedError /\ calls # <<>>)
                => /\ calls[1].side = "errback"
                   /\ calls[1].arg = ExcInfo(InjectedExc)
           /\ \A k \in 1..(Len(calls) - 1) :
                 CallResult(calls[k]).raised
                   => /\ calls[k + 1].side = "errback"
                      /\ calls[k + 1].arg = ExcInfo(CallResult(calls[k]).exc)

C3_Witness ==
    /\ InResolve /\ pc = "done" /\ InjectedError
    /\ Len(calls) = 2
    /\ calls[1].side = "errback" /\ ~CallResult(calls[1]).raised
    /\ CallResult(calls[2]).raised
    /\ outcome = Raised(ValueErrorX)
    /\ InjectedExc # ValueErrorX

-----------------------------------------------------------------------------
(* C4: an invoked continuation sets the mode from its own outcome,         *)
(* whatever mode selected it: a normal return gives success mode with the  *)
(* return value as payload, a raise gives error mode with the captured     *)
(* token as payload, and the next invoked continuation is chosen by that   *)
(* mode and receives that payload.                                         *)

PayloadOf(r) == IF r.raised THEN ExcInfo(r.exc) ELSE r.value

C4_ModeFromOutcome ==
    InResolve
        => /\ (pc = "loop" /\ calls # <<>>)
                => /\ is_error = CallResult(LastCall).raised
                   /\ result = PayloadOf(CallResult(LastCall))
           /\ \A k \in 1..(Len(calls) - 1) :
                 /\ calls[k + 1].side =
                        (IF CallResult(calls[k]).raised THEN "errback" ELSE "callback")
                 /\ calls[k + 1].arg = PayloadOf(CallResult(calls[k]))

C4_Witness ==
    /\ InResolve /\ pc = "loop" /\ i = 3 /\ Len(calls) = 3
    /\ calls[1].side = "errback" /\ ~CallResult(calls[1]).raised
    /\ calls[2].side = "callback" /\ CallResult(calls[2]).raised
    /\ calls[3].side = "errback" /\ ~CallResult(calls[3]).raised
    /\ ~is_error

-----------------------------------------------------------------------------
(* C5: when the side selected by the current mode is absent at slot i,     *)
(* nothing is invoked at slot i and slot i+1 is entered with the same mode *)
(* and the same payload, in success mode and in error mode alike.          *)

SelectedAbsent ==
    /\ InResolve /\ pc = "loop" /\ i < Len(Callbacks)
    /\ (IF is_error THEN Callbacks[i + 1].errback ELSE Callbacks[i + 1].callback) = None

C5_AbsentKeepsMode ==
    [][SelectedAbsent
         => /\ i' = i + 1
            /\ pc' = "loop"
            /\ is_error' = is_error
            /\ result' = result
            /\ calls' = calls]_vars

C5_Witness ==
    /\ InResolve /\ pc = "loop" /\ i = 3 /\ Len(calls) = 1
    /\ ~InjectedError
    /\ calls[1].slot = 1
    /\ Callbacks[1].callback = None /\ Callbacks[1].errback # None
    /\ Callbacks[3].errback = None /\ Callbacks[3].callback # None
    /\ is_error

-----------------------------------------------------------------------------
(* C6: with zero callbacks resolve_effect(effect, r, is_error=False)       *)
(* returns r unchanged and resolve_effect(effect, r, is_error=True) raises *)
(* the exception carried by the token r; nothing is invoked.               *)

C6_ZeroCallbacks ==
    (fn = "resolve_effect" /\ Callbacks = <<>> /\ pc = "done")
        => /\ calls = <<>>
           /\ ~args.is_error => outcome = Returned(args.result)
           /\ args.is_error => outcome = Raised(args.result.value)

C6_Witness ==
    /\ fn = "resolve_effect" /\ Callbacks = <<>> /\ pc = "done"
    /\ ~args.is_error
    /\ outcome = Returned(Val(1))

-----------------------------------------------------------------------------
(* C7: fail_effect(effect, exc) behaves as resolve_effect(effect,          *)
(* token(exc), is_error=True): the first present error-continuation gets   *)
(* the token of exc, no success-continuation before it is invoked, and     *)
(* with no error-continuation in the chain the call re-raises exc itself.  *)

NoErrback == \A k \in 1..Len(Callbacks) : Callbacks[k].errback = None

C7_FailEffect ==
    fn = "fail_effect"
        => /\ calls # <<>>
                => /\ calls[1].side = "errback"
                   /\ calls[1].arg = ExcInfo(args.exception)
                   /\ Callbacks[calls[1].slot + 1].errback = calls[1].cb
                   /\ \A k \in 1..calls[1].slot : Callbacks[k].errback = None
           /\ pc = "done"
                => /\ outcome = Resolve(args.effect, ExcInfo(args.exception), TRUE)
                   /\ NoErrback => calls = <<>> /\ outcome = Raised(args.exception)
                   /\ ~NoErrback => calls # <<>>

C7_Witness ==
    /\ fn = "fail_effect" /\ pc = "done"
    /\ args.exception = ValueErrorX
    /\ Len(Callbacks) = 3 /\ NoErrback
    /\ \A k \in 1..3 : Callbacks[k].callback # None
    /\ outcome = Raised(ValueErrorX)

-----------------------------------------------------------------------------
(* C8: for an effect whose intent is a StubIntent, resolve_stub(effect)    *)
(* has the outcome of resolve_effect(effect, effect.intent.result,         *)
(* is_error=False); with no callbacks it returns the stub's result, and    *)
(* the result is always fed in success mode.                               *)

IsStub == args.effect.intent.type = "StubIntent"

C8_ResolveStub ==
    (fn = "resolve_stub" /\ IsStub)
        => /\ calls # <<>>
                => /\ calls[1].side = "callback"
                   /\ calls[1].arg = args.effect.intent.result
           /\ pc = "done"
                => /\ outcome = Resolve(args.effect, args.effect.intent.result, FALSE)
                   /\ Callbacks = <<>> => outcome = Returned(args.effect.intent.result)

C8_Witness ==
    /\ fn = "resolve_stub" /\ pc = "done"
    /\ args.effect.intent = StubIntent(Val(42))
    /\ Len(calls) = 2
    /\ outcome = Returned(Val(86))

-----------------------------------------------------------------------------
(* C9 as stated: resolve_stub fails with the precondition failure whenever *)
(* the intent is not a StubIntent, before any continuation is invoked.     *)

C9_Original ==
    (fn = "resolve_stub" /\ ~IsStub)
        => /\ calls = <<>>
           /\ pc = "done" => outcome = Raised(AttributeError)

(* C9 as amended: resolve_stub fails with AttributeError, before any       *)
(* continuation is invoked, whenever the intent has no `result` attribute; *)
(* an intent of another class that has a `result` attribute is resolved    *)
(* with that result in success mode.                                       *)

C9_Amended ==
    fn = "resolve_stub"
        => /\ ~HasResultAttr(args.effect.intent)
                => /\ calls = <<>>
                   /\ pc \in {"start", "done"}
                   /\ pc = "done" => outcome = Raised(AttributeError)
           /\ (HasResultAttr(args.effect.intent) /\ pc = "done")
                => outcome = Resolve(args.effect, args.effect.intent.result, FALSE)

C9_Witness ==
    /\ fn = "resolve_stub" /\ pc = "done"
    /\ args.effect.intent = DeferredIntent
    /\ Len(Callbacks) = 3
    /\ Callbacks[1].callback # None
    /\ outcome = Raised(AttributeError)

-----------------------------------------------------------------------------
(* C10: after perform returns, sync_perform returns the collected success  *)
(* if there is one, otherwise re-raises the collected error if there is    *)
(* one, otherwise fails with the not-synchronous AssertionError; it never  *)
(* returns a default and never re-raises a user error in that last case.   *)

UserExcs == Excs \cup {TypeError}

C10_SyncOutcome ==
    (fn = "sync_perform" /\ pc = "done")
        => /\ successes # <<>> => outcome = Returned(successes[1])
           /\ (successes = <<>> /\ errors # <<>>)
                => outcome = Raised(errors[1].value)
           /\ (successes = <<>> /\ errors = <<>>)
                => /\ outcome = Raised(AssertionError)
                   /\ outcome.exc \notin UserExcs

C10_Witness ==
    /\ fn = "sync_perform" /\ pc = "done"
    /\ successes = <<>> /\ errors = <<>>
    /\ Len(calls) = 2
    /\ CallResult(calls[1]).raised
    /\ outcome = Raised(AssertionError)

-----------------------------------------------------------------------------
(* C11: when perform has run the chain through to the terminal pair before *)
(* returning, exactly one of the two collections is non-empty and it holds *)
(* exactly one element; both collections non-empty is unreachable.         *)

InSyncCall ==
    fn = "sync_perform" /\ pc \in {"perform", "callbacks", "performed", "done"}

PerformRanToEnd ==
    /\ fn = "sync_perform" /\ pc \in {"performed", "done"}
    /\ IsSynchronous(peffect.intent)
    /\ i = Len(peffect.callbacks)

C11_ExactlyOneCollector ==
    InSyncCall
        => /\ ~(successes # <<>> /\ errors # <<>>)
           /\ Len(successes) <= 1
           /\ Len(errors) <= 1
           /\ PerformRanToEnd => Len(successes) + Len(errors) = 1

C11_Witness ==
    /\ PerformRanToEnd /\ pc = "performed"
    /\ successes = <<>>
    /\ Len(errors) = 1 /\ errors[1].kind = "exc_info"
    /\ Len(calls) >= 3
    /\ peffect # Terminal(args.effect)

-----------------------------------------------------------------------------
(* C12: sync_perform on an effect whose intent is StubIntent(v), v a plain *)
(* value, and which has no callbacks returns v: the success collector      *)
(* receives v and the error collector stays empty.                         *)

C12_StubNoCallbacks ==
    (fn = "sync_perform" /\ IsStub /\ Callbacks = <<>> /\ pc = "done")
        => /\ outcome = Returned(args.effect.intent.result)
           /\ successes = <<args.effect.intent.result>>
           /\ errors = <<>>

C12_Witness ==
    /\ fn = "sync_perform" /\ pc = "done"
    /\ args.effect = Effect(StubIntent(Val(42)), <<>>)
    /\ outcome = Returned(Val(42))
    /\ successes = <<Val(42)>>
    /\ errors = <<>>

-----------------------------------------------------------------------------
(* C13: resolving step by step agrees with real performing.  After         *)
(* resolve_effect has been applied to an effect and then to each Effect it *)
(* returned, with plain results r1, r2, r3, the continuations invoked,     *)
(* their order and arguments, and the outcome are those of the performer   *)
(* running the operations in sequence with the same results.               *)

Invoked == SelectSeq(visited, LAMBDA v : v.cb # None)

Invocations == [k \in 1..Len(Invoked) |-> [cb |-> Invoked[k].cb, arg |-> Invoked[k].arg]]

PlainResults == \A k \in 1..Len(fed) : fed[k].result.kind # "Effect"

C13_MatchesPerform ==
    (InResolve /\ pc = "done" /\ fed # <<>> /\ PlainResults)
        => LET run == PerformRun(root, fed)
           IN  /\ run.trace = Invocations
               /\ IF outcome.kind = "returned" /\ IsEffect(outcome.value)
                  THEN ~run.done /\ run.waiting = outcome.value
                  ELSE /\ run.done
                       /\ run.unused = 0
                       /\ outcome = IF run.is_error THEN Raised(run.payload.value)
                                                    ELSE Returned(run.payload)

C13_Witness ==
    /\ InResolve /\ pc = "done" /\ PlainResults
    /\ Len(fed) = 3
    /\ fed[1].result # fed[2].result
    /\ outcome.kind = "returned" /\ outcome.value.kind = "val"
    /\ Len(Invocations) >= 4
    /\ Len(root.callbacks) = 3

-----------------------------------------------------------------------------
(* C14: resolve_effect, fail_effect and resolve_stub leave their input     *)
(* effect unchanged whatever the outcome, leave the Effect a continuation  *)
(* returned unchanged, and a pending result is a newly built Effect.       *)

C14_InputUnchanged ==
    InResolve
        => /\ heap.input = args.effect
           /\ heap.input.intent = args.effect.intent
           /\ heap.input.callbacks = args.effect.callbacks
           /\ heap.returned # NoneVal
                => /\ pc = "done"
                   /\ heap.returned = CallResult(LastCall).value
                   /\ heap.fresh
           /\ (pc = "done" /\ calls # <<>> /\ ~CallResult(LastCall).raised
                  /\ IsEffect(CallResult(LastCall).value))
                => heap.returned # NoneVal

C14_Witness ==
    /\ fn = "fail_effect" /\ pc = "done"
    /\ heap.returned # NoneVal
    /\ heap.fresh
    /\ outcome.kind = "returned"
    /\ Len(outcome.value.callbacks) > Len(heap.returned.callbacks)
    /\ heap.input = args.effect

-----------------------------------------------------------------------------
(* C15: resolution stops at the first continuation that returns an Effect. *)
(* Once the continuation at slot i has returned an Effect the call is over *)
(* with a pending Effect: nothing at a later slot and none of the new      *)
(* Effect's continuations is invoked in that call; they run only in a      *)
(* later call that resolves the pending Effect.                            *)

ReturnsEffect(c) ==
    /\ ~CallResult(c).raised
    /\ CallResult(c).value.kind = "Effect"

StoppedAtEffect ==
    \A k \in 1..Len(calls) :
        ReturnsEffect(calls[k])
          => /\ k = Len(calls)
             /\ pc = "done"
             /\ outcome.kind = "returned" /\ outcome.value.kind = "Effect"
             /\ \A j \in 1..Len(calls) :
                   /\ calls[j].slot <= calls[k].slot
                   /\ calls[j].cb \in {Callbacks[calls[j].slot + 1].callback,
                                       Callbacks[calls[j].slot + 1].errback}
             /\ Len(calls) <= calls[k].slot + 1

C15_StopsAtEffect ==
    /\ [](InResolve => StoppedAtEffect)
    /\ [][(InResolve /\ pc = "done") => (pc' = "start" /\ calls' = <<>>)]_vars

C15_Witness ==
    /\ InResolve /\ pc = "loop"
    /\ Len(fed) = 2
    /\ Len(calls) = 1 /\ calls[1].slot = 0
    /\ Len(visited) >= 2
    /\ visited[Len(visited) - 1].ret.kind = "Effect"
    /\ visited[Len(visited) - 1].ret.callbacks # <<>>
    /\ calls[1].cb = visited[Len(visited) - 1].ret.callbacks[1].callback
    /\ Len(args.effect.callbacks) >= 3

-----------------------------------------------------------------------------
(* C16: resolve_effect consumes the callbacks strictly front to back: the  *)
(* slots are visited in increasing order, each at most once, at most one   *)
(* side of a pair is invoked and at most once, and the call ends after at  *)
(* most len(effect.callbacks) invocations with a value, a pending Effect   *)
(* or a raised error.                                                      *)

FrontToBack ==
    /\ i <= Len(Callbacks)
    /\ Len(calls) <= Len(Callbacks)
    /\ \A k \in 1..Len(calls) :
          /\ calls[k].slot < Len(Callbacks)
          /\ calls[k].slot <= i
          /\ calls[k].cb # None
          /\ calls[k].cb = (IF calls[k].side = "errback"
                            THEN Callbacks[calls[k].slot + 1].errback
                            ELSE Callbacks[calls[k].slot + 1].callback)
    /\ \A j, k \in 1..Len(calls) : j < k => calls[j].slot < calls[k].slot
    /\ pc = "loop" => ENABLED (LoopBody \/ LoopEnd)
    /\ pc = "done" => outcome.kind \in {"returned", "raised"}

C16_FrontToBack ==
    /\ [](InResolve => FrontToBack)
    /\ [][(InResolve /\ pc = "loop")
            => \/ pc' = "loop" /\ i' = i + 1 /\ Len(calls') <= Len(calls) + 1
               \/ pc' = "done" /\ i' = i /\ Len(calls') <= Len(calls) + 1]_vars

C16_Witness ==
    /\ InResolve /\ pc = "done"
    /\ Len(Callbacks) = 3 /\ Len(calls) = 3
    /\ calls[1].side = "callback" /\ calls[2].side = "errback"
    /\ outcome.kind = "raised"

-----------------------------------------------------------------------------
(* C18: over a complete drive (resolve_effect applied again to each        *)
(* pending Effect until a plain value or an error comes out) every pair of *)
(* the original effect and of every Effect returned on the way is visited  *)
(* exactly once; the original pairs keep their relative order and come     *)
(* after all pairs of an Effect returned from an earlier slot.             *)

RECURSIVE VisitMatches(_, _)
VisitMatches(chain, k) ==
    IF chain = <<>> THEN k = Len(visited) + 1
    ELSE /\ k <= Len(visited)
         /\ visited[k].pair = Head(chain)
         /\ VisitMatches(IF visited[k].ret.kind = "Effect"
                         THEN visited[k].ret.callbacks \o Tail(chain)
                         ELSE Tail(chain),
                         k + 1)

RECURSIVE ReturnedPairs(_)
ReturnedPairs(k) ==
    IF k = 0 THEN 0
    ELSE ReturnedPairs(k - 1)
           + (IF visited[k].ret.kind = "Effect" THEN Len(visited[k].ret.callbacks) ELSE 0)

CompleteDrive ==
    /\ InResolve /\ pc = "done" /\ fed # <<>> /\ PlainResults
    /\ ~(outcome.kind = "returned" /\ outcome.value.kind = "Effect")

C18_EveryPairOnce ==
    CompleteDrive
        => /\ Len(visited) = Len(root.callbacks) + ReturnedPairs(Len(visited))
           /\ VisitMatches(root.callbacks, 1)

C18_Witness ==
    /\ CompleteDrive
    /\ Len(fed) = 3
    /\ Len(root.callbacks) = 3
    /\ Len(visited) = 7
    /\ visited[1].ret.kind = "Effect" /\ Len(visited[1].ret.callbacks) = 2
    /\ visited[4].ret.kind = "Effect" /\ Len(visited[4].ret.callbacks) = 2
    /\ visited[7].pair = root.callbacks[3]

-----------------------------------------------------------------------------
(* C19: only a payload produced by an invoked continuation is checked for  *)
(* being an Effect.  An Effect supplied as the initial result is passed as *)
(* a plain argument to the first present success-continuation, or returned *)
(* as it is, without the chain's callbacks, when every                     *)
(* success-continuation is absent; and a call that ends in error mode      *)
(* never returns a pending Effect.                                         *)

EffectSupplied ==
    fn = "resolve_effect" /\ ~args.is_error /\ args.result.kind = "Effect"

NoCallback == \A k \in 1..Len(Callbacks) : Callbacks[k].callback = None

C19_InitialEffectIsPlain ==
    /\ EffectSupplied
         => /\ (pc = "loop" /\ calls = <<>>) => result = args.result
            /\ calls # <<>>
                 => /\ calls[1].side = "callback"
                    /\ calls[1].arg = args.result
                    /\ \A k \in 1..calls[1].slot : Callbacks[k].callback = None
            /\ (pc = "done" /\ calls = <<>>) => NoCallback
            /\ (pc = "done" /\ NoCallback)
                 => calls = <<>> /\ outcome = Returned(args.result)
    /\ (InResolve /\ pc = "done" /\ is_error) => outcome.kind = "raised"
    /\ (InResolve /\ pc = "done" /\ calls # <<>> /\ CallResult(LastCall).raised)
         => outcome.kind = "raised"

C19_Witness ==
    /\ EffectSupplied /\ pc = "done"
    /\ Len(Callbacks) = 3 /\ NoCallback
    /\ Callbacks[1].errback # None
    /\ args.result.callbacks # <<>>
    /\ outcome = Returned(args.result)

-----------------------------------------------------------------------------
(* C17: the collectors are private to one sync_perform invocation.  Each   *)
(* call, whether it follows another call or runs inside a continuation of  *)
(* one, starts with both collections empty, and its collections and its    *)
(* outcome are made of the deliveries to its own terminal pair only.       *)

RECURSIVE Delivered(_, _)
Delivered(collector, k) ==
    IF k = 0 THEN <<>>
    ELSE IF calls[k].cb = collector
         THEN Append(Delivered(collector, k - 1), calls[k].arg)
         ELSE Delivered(collector, k - 1)

OwnCollections ==
    /\ successes = Delivered(SUCC, Len(calls))
    /\ errors = Delivered(ERR, Len(calls))
    /\ pc = "done"
         => outcome = IF Delivered(SUCC, Len(calls)) # <<>>
                      THEN Returned(Delivered(SUCC, Len(calls))[1])
                      ELSE IF Delivered(ERR, Len(calls)) # <<>>
                      THEN Raised(Delivered(ERR, Len(calls))[1].value)
                      ELSE Raised(AssertionError)

C17_PrivateCollectors ==
    /\ [](InSyncCall => OwnCollections)
    /\ [][(fn = "sync_perform" /\ pc = "start")
            => (successes' = <<>> /\ errors' = <<>>)]_vars

C17_Witness ==
    /\ fn = "sync_perform" /\ pc = "done"
    /\ ncall = 2
    /\ Len(calls) = 3
    /\ calls[1].cb.f = "sync_perform"
    /\ CallResult(calls[1]) = Ret(Val(7))
    /\ calls[2].cb.f = "add"
    /\ calls[3].cb = SUCC
    /\ successes = <<Val(8)>>
    /\ outcome = Returned(Val(8))

====
